---- MODULE Spec2Model ----
(***************************************************************************)
(* Model of baseline_transformer.py: the scikit-learn style transformers   *)
(* that turn one subject's dated events (notes, encounters, lab results)   *)
(* into fixed-width or keyed features relative to the operation date.      *)
(*                                                                         *)
(* One behaviour is the life of one transformer object: Init is the state  *)
(* right after its constructor, with the subject store it will read; each  *)
(* action is one method call on it (the per-subject function that          *)
(* transform maps over its input, get_feature_names, fit).                 *)
(*                                                                         *)
(* Times are whole seconds.  A text is a sequence of tokens; the token NL  *)
(* is the separator '\n\n' that join puts between documents.               *)
(***************************************************************************)
EXTENDS Integers, Sequences, FiniteSets, TLC

(* ------------------------------ bounds -------------------------------- *)
MaxNotes == 2        \* documents of one type held by a subject
MaxLook == 1         \* largest look_back_months given to the constructor
MaxK == 2            \* largest max_notes / max_encounters
MaxEncs == 2         \* encounters returned for a subject
MaxSlots == 2        \* document slots of one subject given to the tf-idf stage
MaxFit == 1          \* subjects in the population given to fit
MaxLabs == 2         \* distinct lab tests of a subject

(* --------------------------- shared values ---------------------------- *)
\* Python's None in a field that otherwise holds a non-negative integer
None == -1

\* None as returned by extract_data.get_date_key for a type without a date
NoDateKey == "None"

\* line 55: sec_per_month = 24 * 60 * 60 * (365.0 / 12), which is 2628000.0
sec_per_month == (24 * 60 * 60 * 365) \div 12

NL == "\n\n"

\* the operation date of the subject (build_graphs.get_operation_date)
Anchor == MaxLook * sec_per_month + 2

\* Python truth value of an optional integer: None and 0 are both false
Truthy(x) == x # None /\ x # 0

Min(a, b) == IF a < b THEN a ELSE b

\* s[:k] for k >= 0
Take(s, k) == SubSeq(s, 1, Min(k, Len(s)))

\* s[::-1]
Reverse(s) == [i \in 1..Len(s) |-> s[Len(s) + 1 - i]]

\* s[-3:]
Last3(s) == SubSeq(s, IF Len(s) > 3 THEN Len(s) - 2 ELSE 1, Len(s))

\* '\n\n'.join(docs)
RECURSIVE Join(_)
Join(docs) ==
    IF Len(docs) = 0 THEN <<>>
    ELSE IF Len(docs) = 1 THEN docs[1]
    ELSE docs[1] \o <<NL>> \o Join(Tail(docs))

\* all sequences over S of length at most n
SeqUpTo(S, n) == UNION {[1..k -> S] : k \in 0..n}

(* ------------------------------- notes -------------------------------- *)
Texts == {<<>>, <<"aa">>}

\* what extract_data.parse_date can return for a document of the subject,
\* besides None: a second after, on and a second before the operation date,
\* and a whole number of average months before it, to the second and one
\* second more
NoteDates ==
    {Anchor + 1, Anchor, Anchor - 1}
    \cup {Anchor - (k * sec_per_month + e) : k \in 1..MaxLook, e \in {0, 1}}

Docs == [date : NoteDates \cup {None}, free_text : Texts]

\* loader.get_patient_by_EMPI: the subject either lacks the note type or
\* holds a list of documents under it
NoteType == "Car"
Persons == {<<>>} \cup {[t \in {NoteType} |-> d] : d \in SeqUpTo(Docs, MaxNotes)}

\* lines 60 and 98: date != None and date < operation_date
QualifiesLate(date, op_date) == date # None /\ date <= op_date
Qualifies(date, op_date) == date # None /\ date < op_date

\* lines 61-62: the look-back test that skips a document
TooOld(date, op_date, lbm) ==
    Truthy(lbm) /\ (op_date - date) > lbm * sec_per_month

\* lines 57-63: the loop of get_concatenated_notes; notes holds the indices
\* of the documents whose free_text has been appended so far
RECURSIVE ConcatLoop(_, _, _, _, _)
ConcatLoop(docs, i, op_date, lbm, notes) ==
    IF i > Len(docs) THEN notes
    ELSE IF Qualifies(docs[i].date, op_date)
         THEN IF TooOld(docs[i].date, op_date, lbm)
              THEN ConcatLoop(docs, i + 1, op_date, lbm, notes)
              ELSE ConcatLoop(docs, i + 1, op_date, lbm, Append(notes, i))
         ELSE ConcatLoop(docs, i + 1, op_date, lbm, notes)

\* lines 50-64: the appended documents and the returned text
get_concatenated_notes(person, type, dkey, op_date, lbm) ==
    LET sel == IF type \in DOMAIN person /\ dkey # NoDateKey
               THEN ConcatLoop(person[type], 1, op_date, lbm, <<>>)
               ELSE <<>>
    IN [sel |-> sel,
        val |-> Join([k \in 1..Len(sel) |-> person[type][sel[k]].free_text])]

\* lines 95-99: the (operation_date - date, i) pairs in document order
RECURSIVE TimeKeyLoop(_, _, _, _)
TimeKeyLoop(docs, i, op_date, pairs) ==
    IF i > Len(docs) THEN pairs
    ELSE IF Qualifies(docs[i].date, op_date)
         THEN TimeKeyLoop(docs, i + 1, op_date,
                          Append(pairs, <<op_date - docs[i].date, i>>))
         ELSE TimeKeyLoop(docs, i + 1, op_date, pairs)

\* Python's order on (time, key) tuples: by time, then by key
PairLessKeyDown(p, q) == p[1] < q[1] \/ (p[1] = q[1] /\ p[2] > q[2])
PairLess(p, q) == p[1] < q[1] \/ (p[1] = q[1] /\ p[2] < q[2])

RECURSIVE Insert(_, _)
Insert(p, s) ==
    IF s = <<>> THEN <<p>>
    ELSE IF PairLess(p, Head(s)) THEN <<p>> \o s
    ELSE <<Head(s)>> \o Insert(p, Tail(s))

\* line 100: time_key_pairs.sort()
SortPairsNone(s) == s
RECURSIVE SortPairs(_)
SortPairs(s) == IF s = <<>> THEN <<>> ELSE Insert(Head(s), SortPairs(Tail(s)))

\* lines 105-108: append '' until the vector has max_notes slots
PadNotesNone(notes, K) == notes
PadNotes(notes, K) ==
    IF Len(notes) < K THEN notes \o [i \in 1..(K - Len(notes)) |-> <<>>]
    ELSE notes

\* lines 88-109: the keys taken from the sorted pairs and the returned slots
get_latest_concatenated_notes(person, type, dkey, op_date, K) ==
    LET pairs == IF type \in DOMAIN person /\ dkey # NoDateKey
                 THEN Take(SortPairs(TimeKeyLoop(person[type], 1, op_date, <<>>)), K)
                 ELSE <<>>
        notes == [k \in 1..Len(pairs) |-> person[type][pairs[k][2]].free_text]
    IN [keys |-> [k \in 1..Len(pairs) |-> pairs[k][2]],
        val |-> PadNotes(notes, K)]

\* lines 84-86: one name per slot (a name is the pair prefix, index)
LatestNotesFeatureNames(K) == [i \in 1..K |-> <<"latest_note_", i - 1>>]

(* ----------------------------- encounters ----------------------------- *)
EncDates == {Anchor - 2, Anchor - 1, Anchor}
EncClasses == {"Inpatient", "Outpatient"}
LengthsOfStay == {1, 3}
ExtraDiagnoses == {0, 1}

\* structured_data_extractor.get_encounters: tuples
\* (date, class, unused, length of stay, extra diagnoses), ascending by date
Encounter ==
    EncDates \X EncClasses \X {None} \X LengthsOfStay \X ExtraDiagnoses
EncounterLists ==
    {s \in SeqUpTo(Encounter, MaxEncs) :
        \A i \in 1..Len(s) : \A j \in 1..Len(s) : i < j => s[i][1] <= s[j][1]}

\* lines 180-185: count the leading encounters dated before the operation
RECURSIVE OperationIndex(_, _, _)
OperationIndex(encs, i, op_date) ==
    IF i > Len(encs) THEN i - 1
    ELSE IF encs[i][1] < op_date THEN OperationIndex(encs, i + 1, op_date)
    ELSE i - 1

\* lines 187-192: encounters[:operation_index][::-1][:num_tracked_encounters],
\* as positions in the list get_encounters returned
TrackedEncounters(encs, op_date, K) ==
    LET operation_index == OperationIndex(encs, 1, op_date)
        before == [i \in 1..operation_index |-> i]
        num_tracked_encounters == Min(K, Len(before))
    IN Take(Reverse(before), num_tracked_encounters)

\* lines 193-211: the loop over tracked_encounters
RECURSIVE EncLoop(_, _, _)
EncLoop(encs, tracked, acc) ==
    IF tracked = <<>> THEN acc
    ELSE LET enc == encs[Head(tracked)]
             inp == enc[2] = "Inpatient"
             los == enc[4] > 1
         IN EncLoop(encs, Tail(tracked),
                [features |-> acc.features
                      \o <<IF inp THEN 1 ELSE 0, IF los THEN enc[4] ELSE 0, enc[5]>>,
                 inpatients |-> acc.inpatients + (IF inp THEN 1 ELSE 0),
                 total_LOS |-> acc.total_LOS + (IF los THEN enc[4] ELSE 0),
                 total_extra_diagnoses |-> acc.total_extra_diagnoses + enc[5]])

\* lines 213-217: three zeros for every missing encounter
PadEncounters(features, num_tracked, K) ==
    IF num_tracked < K
    THEN features \o [i \in 1..(3 * (K - num_tracked)) |-> 0]
    ELSE features

\* lines 220-223: inpatients / len(tracked_encounters) on integers
InpatientRatio(inpatients, n) == IF n > 0 THEN inpatients \div n ELSE 0

\* lines 225-228: total_LOS / inpatients on integers
AverageLOSPerTracked(total_LOS, inpatients, n) ==
    IF n > 0 THEN total_LOS \div n ELSE 0
AverageLOS(total_LOS, inpatients, n) ==
    IF inpatients > 0 THEN total_LOS \div inpatients ELSE 0

\* lines 230-233
AverageExtraDiagnoses(total, n) == IF n > 0 THEN total \div n ELSE 0

\* lines 176-236
get_encounters_features(encs, op_date, K, og) ==
    LET tracked == TrackedEncounters(encs, op_date, K)
        acc == EncLoop(encs, tracked,
                       [features |-> <<>>, inpatients |-> 0,
                        total_LOS |-> 0, total_extra_diagnoses |-> 0])
        n == Len(tracked)
        features == PadEncounters(acc.features, n, K)
                    \o <<InpatientRatio(acc.inpatients, n),
                         AverageLOS(acc.total_LOS, acc.inpatients, n),
                         AverageExtraDiagnoses(acc.total_extra_diagnoses, n)>>
    IN [tracked |-> tracked,
        val |-> IF og THEN Last3(features) ELSE features]

\* lines 165-174
EncountersFeatureNames(K) ==
    [i \in 1..(3 * K) |->
        <<CASE i % 3 = 1 -> "Inpatient_Outpatient_Enc_"
            [] i % 3 = 2 -> "LOS_Enc_"
            [] OTHER -> "Num_Extra_Diagnoses_Enc_", (i - 1) \div 3>>]
    \o << <<"Enc_Inpatient_Ratio", None>>, <<"Enc_Average_LOS", None>>,
          <<"Enc_Average_Extra_Diagnoses", None>> >>

(* ------------------------- corpus-fit text stage ---------------------- *)
\* the terms of the corpus, in the alphabetical order TfidfVectorizer keeps
WordOrder == <<"aa", "bb">>
SlotTexts == {<<>>, <<"aa">>, <<"bb">>}

\* a subject of the stage is the slot list of get_latest_concatenated_notes
\* with max_notes >= 1
Subjects == SeqUpTo(SlotTexts, MaxSlots) \ {<<>>}

\* the lists transform is given: no subject, or one (the lambda of line 137
\* is applied to each subject on its own)
TransformInputs == {<<>>} \cup {<<x>> : x \in Subjects}

NotFitted == [fitted |-> FALSE]

\* the terms TfidfVectorizer's analyzer finds in a text (the separator of
\* join is white space and yields none)
Tokens(text) == {text[i] : i \in 1..Len(text)} \ {NL}

\* TfidfVectorizer.fit as called on line 133: the vocabulary of the
\* documents; an empty vocabulary raises ValueError and leaves the
\* vectorizer as it was
TfidfFit(old, documents) ==
    LET vocabulary == UNION {Tokens(documents[i]) : i \in 1..Len(documents)}
    IN IF vocabulary = {} THEN [ok |-> FALSE, tfidf |-> old]
       ELSE [ok |-> TRUE,
             tfidf |-> [fitted |-> TRUE, vocabulary |-> vocabulary]]

\* TfidfVectorizer.get_feature_names as called on line 141
TfidfGetFeatureNames(t) ==
    IF t.fitted THEN [ok |-> TRUE, val |-> SelectSeq(WordOrder, LAMBDA w : w \in t.vocabulary)]
    ELSE [ok |-> FALSE]

\* row of one document: one weight per vocabulary term, kept as 1 where the
\* tf-idf weight is non-zero (the term occurs) and 0 elsewhere
TfidfRow(t, text) ==
    LET terms == TfidfGetFeatureNames(t).val
    IN [j \in 1..Len(terms) |-> IF terms[j] \in Tokens(text) THEN 1 ELSE 0]

\* numpy flatten of a matrix given as its sequence of rows
RECURSIVE Flatten(_)
Flatten(rows) == IF rows = <<>> THEN <<>> ELSE Head(rows) \o Flatten(Tail(rows))

\* line 137, the lambda: self.tfidf.transform(x).toarray().flatten();
\* TfidfVectorizer.transform raises NotFittedError before fit
TransformOneUnchecked(t, x) ==
    [ok |-> TRUE,
     val |-> IF t.fitted THEN Flatten([k \in 1..Len(x) |-> TfidfRow(t, x[k])])
             ELSE <<>>]
TransformOne(t, x) ==
    IF t.fitted
    THEN [ok |-> TRUE, val |-> Flatten([k \in 1..Len(x) |-> TfidfRow(t, x[k])])]
    ELSE [ok |-> FALSE]

\* lines 136-138: map (eager) over X; the first error ends the call
MultiDocTransform(t, X) ==
    IF \E k \in 1..Len(X) : ~TransformOne(t, X[k]).ok THEN [ok |-> FALSE]
    ELSE [ok |-> TRUE, val |-> [k \in 1..Len(X) |-> TransformOne(t, X[k]).val]]

\* lines 140-142: the vocabulary names once per slot, flattened
MultiDocFeatureNames(t, vsize) ==
    IF vsize > 0 /\ ~TfidfGetFeatureNames(t).ok THEN [ok |-> FALSE]
    ELSE [ok |-> TRUE,
          val |-> Flatten([i \in 1..vsize |-> TfidfGetFeatureNames(t).val])]

(* -------------------------------- labs -------------------------------- *)
Digits == <<"0", "1", "2", "3", "4", "5", "6", "7", "8", "9">>
IsDigit(c) == \E d \in 1..10 : Digits[d] = c
DigitOf(c) == (CHOOSE d \in 1..10 : Digits[d] = c) - 1

Str(chars) == [kind |-> "str", chars |-> chars]
Num(n) == [kind |-> "num", n |-> n]

\* raw values get_recent_lab_values can hold: '', '0', '12.5', 'Pos',
\* and the numbers 0 and 7
RawValues == {Str(<<>>), Str(<<"0">>), Str(<<"1", "2", ".", "5">>),
              Str(<<"P", "o", "s">>), Num(0), Num(7)}

LabNames == 1..MaxLabs

\* structured_data_extractor.get_recent_lab_values: lab -> (unused, raw value)
LabMaps == UNION {[D -> {None} \X RawValues] : D \in SUBSET LabNames}

\* truth value of a raw value on line 373
RawTruthy(raw) ==
    IF raw.kind = "str" THEN raw.chars # <<>> ELSE raw.n # 0

\* decimal literal digits[.digits] read left to right: the mantissa and the
\* number of digits after the point
RECURSIVE ParseDecimal(_, _, _, _, _)
ParseDecimal(chars, i, mant, dec, dot) ==
    IF i > Len(chars) THEN [ok |-> TRUE, float |-> <<mant, dec>>]
    ELSE IF IsDigit(chars[i])
         THEN ParseDecimal(chars, i + 1, 10 * mant + DigitOf(chars[i]),
                           IF dot THEN dec + 1 ELSE dec, dot)
    ELSE IF chars[i] = "." /\ ~dot
         THEN ParseDecimal(chars, i + 1, mant, dec, TRUE)
    ELSE [ok |-> FALSE]

\* float(raw) on line 375: a number converts, a string must be a literal
\* with at least one digit
Float(raw) ==
    IF raw.kind = "num" THEN [ok |-> TRUE, float |-> <<raw.n, 0>>]
    ELSE IF \E i \in 1..Len(raw.chars) : IsDigit(raw.chars[i])
         THEN ParseDecimal(raw.chars, 1, 0, 0, FALSE)
    ELSE [ok |-> FALSE]

\* lines 374-377: the parsed number, or the raw value when float raises
LabValue(raw) ==
    IF Float(raw).ok THEN [kind |-> "float", float |-> Float(raw).float]
    ELSE raw

\* lines 367-378
get_latest_lab_values(labs) ==
    LET kept == {lab \in DOMAIN labs : RawTruthy(labs[lab][2])}
    IN [lab \in kept |-> LabValue(labs[lab][2])]

(* ---------------------------- state machine --------------------------- *)
VARIABLES
    self,       \* the transformer object: its class and its attributes
    store,      \* what loader, build_graphs, extract_data and
                \* structured_data_extractor return for the subject
    ret,        \* the last fit or per-subject transform call and its result
    names,      \* the get_feature_names result for the object as it is now
    fit_done    \* a fit call of this object has returned

vars == <<self, store, ret, names, fit_done>>

NoCall == [op |-> "none"]

LookBacks == {None} \cup (0..MaxLook)

\* GetConcatenatedNotesTransformer(note_type, look_back_months), lines 39-41
InitConcatenatedNotes ==
    /\ self \in [class : {"GetConcatenatedNotesTransformer"},
                 type : {NoteType}, look_back_months : LookBacks]
    /\ store \in [person : Persons, date_key : {"date", NoDateKey},
                  operation_date : {Anchor}]

\* GetLatestNotesTransformer(note_type, max_notes), lines 73-75
InitLatestNotes ==
    /\ self \in [class : {"GetLatestNotesTransformer"},
                 type : {NoteType}, max_notes : 0..MaxK]
    /\ store \in [person : Persons, date_key : {"date", NoDateKey},
                  operation_date : {Anchor}]

\* GetEncountersFeaturesTransformer(max_encounters, only_general), lines 154-156
InitEncountersFeatures ==
    /\ self \in [class : {"GetEncountersFeaturesTransformer"},
                 max_encounters : 0..MaxK, only_general : BOOLEAN]
    /\ store \in [encounters : EncounterLists, operation_date : {Anchor}]

\* MultiDocTfidfTransformer(), lines 127-129
InitMultiDocTfidf ==
    /\ self = [class |-> "MultiDocTfidfTransformer",
               tfidf |-> NotFitted, vec_size |-> 0]
    /\ store = <<>>

\* GetLatestLabValuesTransformer has no constructor of its own
InitLatestLabValues ==
    /\ self = [class |-> "GetLatestLabValuesTransformer"]
    /\ store \in [latest_labs : LabMaps]

Init ==
    /\ \/ InitConcatenatedNotes
       \/ InitLatestNotes
       \/ InitEncountersFeatures
       \/ InitMultiDocTfidf
       \/ InitLatestLabValues
    /\ ret = NoCall
    /\ names = NoCall
    /\ fit_done = FALSE

\* lines 43-44, 77-78, 158-159, 360-361: fit returns self
FitIdentity ==
    /\ self.class # "MultiDocTfidfTransformer"
    /\ ret' = [op |-> "fit", ok |-> TRUE]
    /\ fit_done' = TRUE
    /\ UNCHANGED <<self, store, names>>

\* lines 50-64
GetConcatenatedNotes ==
    /\ self.class = "GetConcatenatedNotesTransformer"
    /\ LET r == get_concatenated_notes(store.person, self.type, store.date_key,
                                       store.operation_date, self.look_back_months)
       IN ret' = [op |-> "get_concatenated_notes", ok |-> TRUE,
                  sel |-> r.sel, val |-> r.val]
    /\ UNCHANGED <<self, store, names, fit_done>>

\* lines 88-109
GetLatestConcatenatedNotes ==
    /\ self.class = "GetLatestNotesTransformer"
    /\ LET r == get_latest_concatenated_notes(store.person, self.type,
                    store.date_key, store.operation_date, self.max_notes)
       IN ret' = [op |-> "get_latest_concatenated_notes", ok |-> TRUE,
                  keys |-> r.keys, val |-> r.val]
    /\ UNCHANGED <<self, store, names, fit_done>>

\* lines 84-86
LatestNotesGetFeatureNames ==
    /\ self.class = "GetLatestNotesTransformer"
    /\ names' = [op |-> "get_feature_names", ok |-> TRUE,
                 val |-> LatestNotesFeatureNames(self.max_notes)]
    /\ UNCHANGED <<self, store, ret, fit_done>>

\* lines 176-236
GetEncountersFeatures ==
    /\ self.class = "GetEncountersFeaturesTransformer"
    /\ LET r == get_encounters_features(store.encounters, store.operation_date,
                    self.max_encounters, self.only_general)
       IN ret' = [op |-> "get_encounters_features", ok |-> TRUE,
                  tracked |-> r.tracked, val |-> r.val]
    /\ UNCHANGED <<self, store, names, fit_done>>

\* lines 165-174
EncountersGetFeatureNames ==
    /\ self.class = "GetEncountersFeaturesTransformer"
    /\ names' = [op |-> "get_feature_names", ok |-> TRUE,
                 val |-> EncountersFeatureNames(self.max_encounters)]
    /\ UNCHANGED <<self, store, ret, fit_done>>

\* lines 131-134: X[0] raises IndexError on an empty population; vec_size
\* is assigned before the vectorizer is fitted and stays when that raises
MultiDocFit ==
    /\ self.class = "MultiDocTfidfTransformer"
    /\ \E X \in SeqUpTo(Subjects, MaxFit) :
         IF X = <<>>
         THEN /\ ret' = [op |-> "fit", ok |-> FALSE]
              /\ UNCHANGED <<self, fit_done>>
         ELSE LET f == TfidfFit(self.tfidf, [k \in 1..Len(X) |-> Join(X[k])])
              IN /\ self' = [self EXCEPT !.vec_size = Len(X[1]), !.tfidf = f.tfidf]
                 /\ ret' = [op |-> "fit", ok |-> f.ok]
                 /\ fit_done' = (fit_done \/ f.ok)
    /\ names' = NoCall
    /\ UNCHANGED store

\* lines 136-138
MultiDocTfidfTransform ==
    /\ self.class = "MultiDocTfidfTransformer"
    /\ \E X \in TransformInputs :
         LET r == MultiDocTransform(self.tfidf, X)
         IN ret' = IF r.ok
                   THEN [op |-> "transform", X |-> X, ok |-> TRUE, val |-> r.val]
                   ELSE [op |-> "transform", X |-> X, ok |-> FALSE]
    /\ UNCHANGED <<self, store, names, fit_done>>

\* lines 140-142
MultiDocGetFeatureNames ==
    /\ self.class = "MultiDocTfidfTransformer"
    /\ names' = [op |-> "get_feature_names"]
                 @@ MultiDocFeatureNames(self.tfidf, self.vec_size)
    /\ UNCHANGED <<self, store, ret, fit_done>>

\* lines 367-378
GetLatestLabValues ==
    /\ self.class = "GetLatestLabValuesTransformer"
    /\ ret' = [op |-> "get_latest_lab_values", ok |-> TRUE,
               val |-> get_latest_lab_values(store.latest_labs)]
    /\ UNCHANGED <<self, store, names, fit_done>>

Next ==
    \/ FitIdentity
    \/ GetConcatenatedNotes
    \/ GetLatestConcatenatedNotes
    \/ LatestNotesGetFeatureNames
    \/ GetEncountersFeatures
    \/ EncountersGetFeatureNames
    \/ MultiDocFit
    \/ MultiDocTfidfTransform
    \/ MultiDocGetFeatureNames
    \/ GetLatestLabValues

Spec == Init /\ [][Next]_vars

(* ------------------------------ properties ---------------------------- *)
IsConcat == ret.op = "get_concatenated_notes"
IsLatest == ret.op = "get_latest_concatenated_notes"
IsEnc == ret.op = "get_encounters_features"
IsTfidf == self.class = "MultiDocTfidfTransformer"

\* the documents of the configured type, none when the subject has no such
\* type or the type has no date key
TheDocs ==
    IF self.type \in DOMAIN store.person /\ store.date_key # NoDateKey
    THEN store.person[self.type] ELSE <<>>

\* distance of a document / an encounter to the operation date
NoteDelta(i) == store.operation_date - TheDocs[i].date
EncDelta(i) == store.operation_date - store.encounters[i][1]

\* positions of the events dated strictly before the operation date
NotesBefore ==
    {i \in 1..Len(TheDocs) :
        TheDocs[i].date # None /\ TheDocs[i].date < store.operation_date}
EncBefore ==
    {i \in 1..Len(store.encounters) :
        store.encounters[i][1] < store.operation_date}

Range(s) == {s[k] : k \in 1..Len(s)}

\* the subject with every event dated on or after the operation date (or
\* undated) taken out
PersonBefore ==
    IF self.type \in DOMAIN store.person
    THEN [t \in {self.type} |->
            SelectSeq(store.person[t],
                      LAMBDA d : d.date # None /\ d.date < store.operation_date)]
    ELSE store.person
EncountersBefore ==
    SelectSeq(store.encounters, LAMBDA e : e[1] < store.operation_date)

\* C1: in get_concatenated_notes, get_latest_concatenated_notes and
\* get_encounters_features every event that enters the output is dated
\* strictly before the operation date (one dated on it never enters), and
\* the output is the one obtained without the events dated on or after it.
C1_OnlyBeforeAnchor ==
    /\ IsConcat =>
         /\ Range(ret.sel) \subseteq NotesBefore
         /\ ret.val = get_concatenated_notes(PersonBefore, self.type,
                store.date_key, store.operation_date, self.look_back_months).val
    /\ IsLatest =>
         /\ Range(ret.keys) \subseteq NotesBefore
         /\ ret.val = get_latest_concatenated_notes(PersonBefore, self.type,
                store.date_key, store.operation_date, self.max_notes).val
    /\ IsEnc =>
         /\ Range(ret.tracked) \subseteq EncBefore
         /\ ret.val = get_encounters_features(EncountersBefore,
                store.operation_date, self.max_encounters, self.only_general).val

\* a subject with a note dated exactly on the operation date and an earlier
\* one that was returned
C1_Witness ==
    /\ IsLatest
    /\ \E i \in 1..Len(TheDocs) : TheDocs[i].date = store.operation_date
    /\ Len(ret.keys) > 0

\* C2: with look_back_months = L given (0 included), no note of the output of
\* get_concatenated_notes is older than L * sec_per_month seconds, and every
\* note before the operation date that is at most that old is in the output.
C2_LookbackBound ==
    (IsConcat /\ self.look_back_months # None) =>
        Range(ret.sel) =
            {i \in NotesBefore :
                NoteDelta(i) <= self.look_back_months * sec_per_month}

\* C3: get_latest_concatenated_notes returns exactly max_notes slots;
\* get_encounters_features returns 3 * max_encounters + 3 values, or the 3
\* aggregates when only_general is set, whatever the number of events.
C3_FixedWidth ==
    /\ IsLatest => Len(ret.val) = self.max_notes
    /\ IsEnc => Len(ret.val) =
                  IF self.only_general THEN 3 ELSE 3 * self.max_encounters + 3

\* fewer qualifying notes than slots, but at least one
C3_Witness ==
    /\ IsLatest
    /\ Cardinality(NotesBefore) > 0
    /\ Cardinality(NotesBefore) < self.max_notes

\* the triple get_encounters_features emits for an encounter
EncTriple(e) ==
    <<IF e[2] = "Inpatient" THEN 1 ELSE 0, IF e[4] > 1 THEN e[4] ELSE 0, e[5]>>

\* ks lists m = min(K, |Q|) distinct members of Q, closest first, and no
\* member of Q left out is closer than one listed
ClosestFirst(ks, Q, K, Delta(_)) ==
    /\ Len(ks) = Min(K, Cardinality(Q))
    /\ Range(ks) \subseteq Q
    /\ \A a \in 1..Len(ks) : \A b \in 1..Len(ks) :
          a < b => ks[a] # ks[b] /\ Delta(ks[a]) <= Delta(ks[b])
    /\ \A i \in Q \ Range(ks) : \A k \in Range(ks) : Delta(k) <= Delta(i)

\* C4: the leading min(K, n) slots hold the min(K, n) events closest to the
\* operation date, closest first, and every slot after them is a
\* placeholder ('' for a note, 0, 0, 0 for an encounter).
C4_ClosestFirstThenPlaceholders ==
    /\ IsLatest =>
         /\ ClosestFirst(ret.keys, NotesBefore, self.max_notes, NoteDelta)
         /\ \A k \in 1..Len(ret.val) :
               ret.val[k] = IF k <= Len(ret.keys)
                            THEN TheDocs[ret.keys[k]].free_text ELSE <<>>
    /\ (IsEnc /\ ~self.only_general) =>
         /\ ClosestFirst(ret.tracked, EncBefore, self.max_encounters, EncDelta)
         /\ \A k \in 1..self.max_encounters :
               SubSeq(ret.val, 3 * k - 2, 3 * k) =
                   IF k <= Len(ret.tracked)
                   THEN EncTriple(store.encounters[ret.tracked[k]])
                   ELSE <<0, 0, 0>>

\* more qualifying notes than slots: a note later in the input and closer
\* to the operation date was kept while an earlier, farther one was dropped
C4_Witness ==
    /\ IsLatest
    /\ self.max_notes > 0
    /\ Cardinality(NotesBefore) > self.max_notes
    /\ \E i \in NotesBefore : \E j \in NotesBefore :
          i < j /\ NoteDelta(j) < NoteDelta(i) /\ j \in Range(ret.keys)
             /\ i \notin Range(ret.keys)

\* ks keeps equally distant members of Q in their input order, also across
\* the truncation
TiesInInputOrder(ks, Q, Delta(_)) ==
    /\ \A a \in 1..Len(ks) : \A b \in 1..Len(ks) :
          (a < b /\ Delta(ks[a]) = Delta(ks[b])) => ks[a] < ks[b]
    /\ \A i \in Q : \A j \in Q :
          (i < j /\ Delta(i) = Delta(j) /\ j \in Range(ks)) => i \in Range(ks)

\* ks keeps equally distant members of Q in the reverse of their input
\* order, also across the truncation
TiesInReverseOrder(ks, Q, Delta(_)) ==
    /\ \A a \in 1..Len(ks) : \A b \in 1..Len(ks) :
          (a < b /\ Delta(ks[a]) = Delta(ks[b])) => ks[a] > ks[b]
    /\ \A i \in Q : \A j \in Q :
          (i < j /\ Delta(i) = Delta(j) /\ i \in Range(ks)) => j \in Range(ks)

\* C5 as stated: in both ranked consumers, events at the same distance stay
\* in their original relative order, and the earlier one in the input is
\* the one that survives the truncation to K.
C5_StableEverywhere ==
    /\ IsLatest => TiesInInputOrder(ret.keys, NotesBefore, NoteDelta)
    /\ IsEnc => TiesInInputOrder(ret.tracked, EncBefore, EncDelta)

\* C5 amended: get_latest_concatenated_notes keeps equally distant notes in
\* their original relative order; get_encounters_features lists equally
\* distant encounters in the reverse of their original order, and the later
\* one in the input is the one that survives the truncation.
C5_StableNotesReversedEncounters ==
    /\ IsLatest => TiesInInputOrder(ret.keys, NotesBefore, NoteDelta)
    /\ IsEnc => TiesInReverseOrder(ret.tracked, EncBefore, EncDelta)

\* two notes at the same distance and room for one only
C5_Witness ==
    /\ IsLatest
    /\ self.max_notes = 1
    /\ \E i \in NotesBefore : \E j \in NotesBefore :
          i < j /\ NoteDelta(i) = NoteDelta(j) /\ ret.keys = <<i>>

\* the tracked encounters: the min(K, n) encounters before the operation
\* date that are closest to it (the last ones of the ascending list)
TrackedSet ==
    {i \in EncBefore :
        Cardinality({j \in EncBefore : j > i}) < self.max_encounters}
InpatientCount ==
    Cardinality({i \in TrackedSet : store.encounters[i][2] = "Inpatient"})

\* sum over the encounters at the positions S of the stays longer than 1
RECURSIVE SumLOS(_)
SumLOS(S) ==
    IF S = {} THEN 0
    ELSE LET i == CHOOSE y \in S : TRUE
         IN (IF store.encounters[i][4] > 1 THEN store.encounters[i][4] ELSE 0)
            + SumLOS(S \ {i})
TotalLOS == SumLOS(TrackedSet)

\* C6: Enc_Average_LOS is totalLOS / inpatientCount (division of integers)
\* when a tracked encounter is an inpatient one and 0 otherwise, totalLOS
\* summing the stays longer than 1 of all tracked encounters of any class.
C6_AverageLOS ==
    IsEnc =>
        ret.val[Len(ret.val) - 1] =
            IF InpatientCount > 0 THEN TotalLOS \div InpatientCount ELSE 0

\* no tracked inpatient encounter although stays were counted, and an
\* inpatient encounter that is not tracked
C6_Witness ==
    /\ IsEnc
    /\ InpatientCount = 0
    /\ TotalLOS > 0
    /\ \E i \in EncBefore \ TrackedSet : store.encounters[i][2] = "Inpatient"
    /\ ret.val[Len(ret.val) - 1] = 0

\* C7: get_feature_names returns as many names as the per-subject output
\* has values, for GetLatestNotesTransformer and for
\* GetEncountersFeaturesTransformer with only_general false or true.
C7_NamesMatchOutput ==
    (names.op = "get_feature_names" /\ (IsLatest \/ IsEnc)) =>
        Len(names.val) = Len(ret.val)

\* C8: after fit, every per-subject vector of transform has length
\* vocabularySize * vec_size, and so has get_feature_names.
C8_VectorLength ==
    IsTfidf =>
        /\ (ret.op = "transform" /\ ret.ok) =>
              \A k \in 1..Len(ret.val) :
                 Len(ret.val[k]) =
                    Cardinality(self.tfidf.vocabulary) * self.vec_size
        /\ (names.op = "get_feature_names" /\ names.ok /\ self.tfidf.fitted) =>
              Len(names.val) = Cardinality(self.tfidf.vocabulary) * self.vec_size

\* C9 as stated: no transform call of MultiDocTfidfTransformer completes
\* successfully before a fit call has completed.
C9_NoTransformBeforeFit ==
    (IsTfidf /\ ret.op = "transform" /\ ret.ok) => fit_done

\* C9 amended: no transform call of MultiDocTfidfTransformer on a non-empty
\* list of subjects completes successfully before a fit call has completed
\* (it ends in an error and produces no output; on an empty list it returns
\* the empty list); the fit of every other stage succeeds and changes
\* neither the object nor the data, and their per-subject calls succeed
\* before as after it.
C9_NoNonEmptyTransformBeforeFit ==
    [][/\ (IsTfidf /\ ret'.op = "transform" /\ ~fit_done) =>
             IF ret'.X = <<>> THEN ret'.ok /\ ret'.val = <<>>
             ELSE ~ret'.ok /\ "val" \notin DOMAIN ret'
       /\ (~IsTfidf /\ ret'.op = "fit") =>
             ret'.ok /\ self' = self /\ store' = store
       /\ (~IsTfidf /\ ret'.op \notin {"none", "fit"}) => ret'.ok]_vars

\* a transform of one subject that failed because no fit had completed
C9_Witness ==
    /\ IsTfidf
    /\ ret.op = "transform"
    /\ ret.X # <<>>
    /\ ~ret.ok
    /\ ~fit_done

\* C10: get_latest_lab_values has a key for exactly the tests that
\* get_recent_lab_values returned, each mapped to the parsed number when the
\* raw value parses and to the raw value otherwise.
C10_EveryRecentLabMapped ==
    ret.op = "get_latest_lab_values" =>
        /\ DOMAIN ret.val = DOMAIN store.latest_labs
        /\ \A lab \in DOMAIN ret.val :
              ret.val[lab] = LabValue(store.latest_labs[lab][2])

====
